---- MODULE Spec2Model ----
(***************************************************************************)
(* Model of core/network_info.py: the admin-only network info page.        *)
(*                                                                         *)
(* Python strings are sequences of one-character strings, so that split,   *)
(* strip, startswith, slicing and f-string formatting are computed as the  *)
(* code computes them. A Python value that may be None is a tagged record. *)
(***************************************************************************)
EXTENDS Naturals, Sequences, FiniteSets

VARIABLES pc, is_admin, context, ssid, password, wifi_active, device, ip,
          wifi_qr, raveberry_url, raveberry_qr, response, calls, qr_calls,
          unit

vars == <<pc, is_admin, context, ssid, password, wifi_active, device, ip,
          wifi_qr, raveberry_url, raveberry_qr, response, calls, qr_calls,
          unit>>

request_vars == <<pc, is_admin, context, ssid, password, wifi_active, device,
                  ip, wifi_qr, raveberry_url, raveberry_qr, response, calls,
                  qr_calls>>

-----------------------------------------------------------------------------
(* Bounds of the generated command outputs. *)

\* Longest route output, in words.
MaxWords == 4

\* Most lines of an address output.
MaxLines == 2

\* Most whitespace-delimited fields on a line of an address output.
MaxFields == 2

-----------------------------------------------------------------------------
(* Python values. *)

None == [t |-> "None", v |-> <<>>]

Str(s) == [t |-> "str", v |-> s]

\* The value of a context key index() has not assigned.
Unset == [t |-> "unset", v |-> <<>>]

\* Truth value of an Optional[str]: None and "" are falsy.
Falsy(x) == x.t = "None" \/ x.v = <<>>

\* Variant that leaves an absent value out of the text.
Format_blank(x) == x.v

\* f"{x}": a string is inserted as it is, None as the text None.
Format(x) == IF x.t = "None" THEN <<"N", "o", "n", "e">> ELSE x.v

-----------------------------------------------------------------------------
(* String methods. *)

\* The characters str.split() and str.strip() treat as whitespace.
IsSpace(c) == c \in {" ", "\n", "\t"}

RECURSIVE SplitWs(_, _, _)
\* s.split(): the maximal runs of non-whitespace characters of s, in order.
SplitWs(s, cur, acc) ==
    IF s = <<>>
    THEN IF cur = <<>> THEN acc ELSE Append(acc, cur)
    ELSE IF IsSpace(Head(s))
         THEN SplitWs(Tail(s), <<>>, IF cur = <<>> THEN acc ELSE Append(acc, cur))
         ELSE SplitWs(Tail(s), Append(cur, Head(s)), acc)

Split(s) == SplitWs(s, <<>>, <<>>)

RECURSIVE SplitSep(_, _, _, _)
\* s.split(sep) for a one-character sep: the pieces between separators,
\* empty pieces kept.
SplitSep(s, sep, cur, acc) ==
    IF s = <<>>
    THEN Append(acc, cur)
    ELSE IF Head(s) = sep
         THEN SplitSep(Tail(s), sep, <<>>, Append(acc, cur))
         ELSE SplitSep(Tail(s), sep, Append(cur, Head(s)), acc)

SplitOn(s, sep) == SplitSep(s, sep, <<>>, <<>>)

RECURSIVE LStrip(_)
LStrip(s) == IF s # <<>> /\ IsSpace(Head(s)) THEN LStrip(Tail(s)) ELSE s

RECURSIVE RStrip(_)
RStrip(s) ==
    IF s # <<>> /\ IsSpace(s[Len(s)]) THEN RStrip(SubSeq(s, 1, Len(s) - 1)) ELSE s

\* s.strip()
Strip(s) == RStrip(LStrip(s))

\* s.startswith(p)
StartsWith(s, p) == Len(s) >= Len(p) /\ SubSeq(s, 1, Len(p)) = p

\* s[:-1]
DropLast(s) == IF s = <<>> THEN <<>> ELSE SubSeq(s, 1, Len(s) - 1)

-----------------------------------------------------------------------------
(* Outcomes of a call: a returned value or a raised exception. *)

\* An exception's message: its text and the value formatted into it.
Msg(text, arg) == [text |-> text, arg |-> arg]

Return(x) == [kind |-> "return", exc |-> "", msg |-> Msg("", <<>>), val |-> x]

Raise(e, m) == [kind |-> "raise", exc |-> e, msg |-> m, val |-> None]

\* A finished external process: exit status and standard output.
Run(rc, out) == [rc |-> rc, out |-> out]

\* subprocess.check_output: the output, or CalledProcessError on a
\* non-zero exit status.
CheckOutput(run) ==
    IF run.rc # 0 THEN Raise("CalledProcessError", Msg("", <<>>)) ELSE Return(run.out)

-----------------------------------------------------------------------------
(* Literals of the source. *)

W_dev == <<"d", "e", "v">>

W_inet == <<"i", "n", "e", "t">>

WIFI_S == <<"W", "I", "F", "I", ":", "S", ":">>

T_WPA_P == <<";", "T", ":", "W", "P", "A", ";", "P", ":">>

SEMI2 == <<";", ";">>

HTTP == <<"h", "t", "t", "p", ":", "/", "/">>

SLASH == <<"/">>

-----------------------------------------------------------------------------
(* NetworkInfo._get_default_device *)

RECURSIVE ScanDevFirst(_, _, _)
\* Variant that stops at the first "dev" pair.
ScanDevFirst(words, i, dev) ==
    IF i >= Len(words)
    THEN dev
    ELSE IF words[i] = W_dev
         THEN Str(words[i + 1])
         ELSE ScanDevFirst(words, i + 1, dev)

RECURSIVE ScanDev(_, _, _)
\* for cur, nex in zip(words, words[1:]): if cur == "dev": device = nex
ScanDev(words, i, dev) ==
    IF i >= Len(words)
    THEN dev
    ELSE ScanDev(words, i + 1, IF words[i] = W_dev THEN Str(words[i + 1]) ELSE dev)

\* Variant in which the first match wins.
GetDefaultDevice_first(run) ==
    LET output == CheckOutput(run) IN
    IF output.kind = "raise"
    THEN output
    ELSE LET dev == ScanDevFirst(Split(output.val), 1, None) IN
         IF Falsy(dev)
         THEN Raise("ValueError", Msg("No default device found", <<>>))
         ELSE Return(dev)

\* run is the finished process `ip route show default`.
GetDefaultDevice(run) ==
    LET output == CheckOutput(run) IN
    IF output.kind = "raise"
    THEN output
    ELSE LET dev == ScanDev(Split(output.val), 1, None) IN
         IF Falsy(dev)
         THEN Raise("ValueError", Msg("No default device found", <<>>))
         ELSE Return(dev)

-----------------------------------------------------------------------------
(* NetworkInfo._ip_of_device *)

RECURSIVE ScanInet(_, _)
\* The loop over output.split("\n"): the first line that, stripped, starts
\* with "inet" decides. line.split()[1] raises IndexError when the line has
\* fewer than two fields.
ScanInet(lines, i) ==
    IF i > Len(lines)
    THEN Return(None)
    ELSE LET line == Strip(lines[i]) IN
         IF ~StartsWith(line, W_inet)
         THEN ScanInet(lines, i + 1)
         ELSE LET fields == Split(line) IN
              IF Len(fields) < 2
              THEN Raise("IndexError", Msg("list index out of range", <<>>))
              ELSE Return(Str(SplitOn(fields[2], "/")[1]))

\* run is the finished process `ip -4 a show dev <dev>`.
IpOfDevice(dev, run) ==
    LET output == CheckOutput(run) IN
    IF output.kind = "raise"
    THEN output
    ELSE LET found == ScanInet(SplitOn(output.val, "\n"), 1) IN
         IF found.kind = "raise"
         THEN found
         ELSE IF Falsy(found.val)
              THEN Raise("ValueError", Msg("ip not found for ", dev))
              ELSE Return(found.val)

-----------------------------------------------------------------------------
(* NetworkInfo._qr_path *)

\* The SVG path tag of the QR code of data: the encoder is the qrcode
\* library, so the tag is kept as a value that stands for "the QR code of
\* data" and differs for different data.
QrPath(data) == [t |-> "svg", v |-> data]

-----------------------------------------------------------------------------
(* The host: what the external commands of one request can answer. *)

W_default == <<"d", "e", "f", "a", "u", "l", "t">>

W_eth0 == <<"e", "t", "h", "0">>

W_wlan0 == <<"w", "l", "a", "n", "0">>

W_inet6 == <<"i", "n", "e", "t", "6">>

W_lo == <<"l", "o">>

NL == <<"\n">>

SP == <<" ">>

RECURSIVE Join(_, _)
\* The pieces, in order, with sep between neighbours.
Join(pieces, sep) ==
    IF pieces = <<>>
    THEN <<>>
    ELSE IF Len(pieces) = 1
         THEN pieces[1]
         ELSE pieces[1] \o sep \o Join(Tail(pieces), sep)

\* All sequences over S of length 0..n.
SeqsUpTo(S, n) == UNION {[1..k -> S] : k \in 0..n}

\* The IPv4 address the host has on a device, with its prefix length.
HostCidr(dev) ==
    IF dev = W_eth0
    THEN <<"1", "0", ".", "1", "/", "2", "4">>
    ELSE <<"1", "0", ".", "2", "/", "1", "6">>

\* /sbin/iwgetid --raw: not associated (exit 255), or the SSID and a newline.
IwgetidRuns ==
    {Run(255, <<>>),
     Run(0, <<"M", "y", "N", "e", "t", "\n">>),
     Run(0, <<"P", "i", "\n">>)}

\* ip route show default, as index() meets it.
RouteRuns ==
    {Run(1, <<>>),
     Run(0, <<>>),
     Run(0, Join(<<W_default, W_dev, W_eth0>>, SP) \o NL),
     Run(0, Join(<<W_default, W_dev, W_wlan0>>, SP) \o NL),
     Run(0, Join(<<W_default, W_dev, W_eth0>>, SP) \o NL
            \o Join(<<W_default, W_dev, W_wlan0>>, SP) \o NL),
     Run(0, Join(<<W_default, W_dev>>, SP) \o NL)}

\* ip -4 a show dev <dev>, as index() meets it.
AddrRuns(dev) ==
    {Run(1, <<>>),
     Run(0, <<>>),
     Run(0, Join(<<dev>>, SP) \o NL \o <<" ", " ">>
            \o Join(<<W_inet, HostCidr(dev), W_lo>>, SP) \o NL),
     Run(0, <<" ", " ">> \o Join(<<W_inet, HostCidr(dev)>>, SP) \o NL
            \o <<" ", " ">> \o Join(<<W_inet, HostCidr(W_lo)>>, SP) \o NL),
     Run(0, <<" ", " ">> \o Join(<<W_inet, <<"/", "2", "4">>>>, SP) \o NL),
     Run(0, <<" ", " ">> \o W_inet \o NL)}

\* sudo password_for_ssid <ssid>: no stored credential (exit 1), or the
\* passphrase.
PasswordRuns ==
    {Run(1, <<>>),
     Run(0, <<>>),
     Run(0, <<"p", "w", "\n">>)}

-----------------------------------------------------------------------------
(* NetworkInfo.index *)

CtxKeys == {"ssid", "password", "wifi_qr", "raveberry_url", "raveberry_qr", "ip"}

\* self.base.context(request): the application's own keys are passed through
\* untouched, none of the six keys of this page is set.
BaseContext == [k \in CtxKeys |-> Unset]

NoResponse == [kind |-> "none", target |-> "", context |-> BaseContext]

\* redirect(to)
Redirect(to) == [kind |-> "redirect", target |-> to, context |-> BaseContext]

\* render(request, template, ctx)
Render(template, ctx) == [kind |-> "render", target |-> template, context |-> ctx]

\* An exception leaving index().
Propagate(r) == [kind |-> "raise", target |-> r.exc, context |-> BaseContext]

\* One external process started by the request.
Call(cmd, arg, run) == [cmd |-> cmd, arg |-> arg, run |-> run]

Pending == [kind |-> "pending", exc |-> "", msg |-> Msg("", <<>>), val |-> None]

NoUnit == [fn |-> "none", dev |-> <<>>, run |-> Run(0, <<>>), ret |-> Pending]

\* No request is being handled.
RequestInit ==
    /\ pc = "idle"
    /\ is_admin = FALSE
    /\ context = BaseContext
    /\ ssid = None
    /\ password = None
    /\ wifi_active = FALSE
    /\ device = None
    /\ ip = None
    /\ wifi_qr = None
    /\ raveberry_url = None
    /\ raveberry_qr = None
    /\ response = NoResponse
    /\ calls = <<>>
    /\ qr_calls = <<>>

Init == RequestInit /\ unit = NoUnit

\* Variant without the admin check.
Index_is_admin_open ==
    /\ pc = "idle"
    /\ \E admin \in BOOLEAN :
          /\ is_admin' = admin
          /\ pc' = "iwgetid"
          /\ response' = NoResponse
    /\ UNCHANGED <<context, ssid, password, wifi_active, device, ip, wifi_qr,
                   raveberry_url, raveberry_qr, calls, qr_calls, unit>>

\* Lines 76-81: the admin check, then the locals.
Index_is_admin ==
    /\ pc = "idle"
    /\ \E admin \in BOOLEAN :
          /\ is_admin' = admin
          /\ IF ~admin
             THEN /\ response' = Redirect("login")
                  /\ pc' = "done"
             ELSE /\ response' = NoResponse
                  /\ pc' = "iwgetid"
    /\ UNCHANGED <<context, ssid, password, wifi_active, device, ip, wifi_qr,
                   raveberry_url, raveberry_qr, calls, qr_calls, unit>>

\* Variant that looks the password up in the same try block, before the
\* network is probed.
Index_iwgetid_with_password ==
    /\ pc = "iwgetid"
    /\ \E run \in IwgetidRuns, prun \in PasswordRuns :
          LET r == CheckOutput(run)
              p == CheckOutput(prun)
          IN IF r.kind = "raise"
             THEN /\ calls' = Append(calls, Call("iwgetid", <<>>, run))
                  /\ wifi_active' = FALSE
                  /\ ssid' = ssid
                  /\ password' = password
             ELSE /\ calls' = calls \o <<Call("iwgetid", <<>>, run),
                                         Call("password_for_ssid", DropLast(r.val), prun)>>
                  /\ wifi_active' = TRUE
                  /\ ssid' = Str(DropLast(r.val))
                  /\ password' = IF p.kind = "raise" THEN password ELSE Str(p.val)
    /\ pc' = "device"
    /\ UNCHANGED <<is_admin, context, device, ip, wifi_qr,
                   raveberry_url, raveberry_qr, response, qr_calls, unit>>

\* Lines 82-88: the Wi-Fi status command.
Index_iwgetid ==
    /\ pc = "iwgetid"
    /\ \E run \in IwgetidRuns :
          LET r == CheckOutput(run) IN
          /\ calls' = Append(calls, Call("iwgetid", <<>>, run))
          /\ IF r.kind = "raise"
             THEN /\ wifi_active' = FALSE
                  /\ ssid' = ssid
             ELSE /\ wifi_active' = TRUE
                  /\ ssid' = Str(DropLast(r.val))
    /\ pc' = "device"
    /\ UNCHANGED <<is_admin, context, password, device, ip, wifi_qr,
                   raveberry_url, raveberry_qr, response, qr_calls, unit>>

\* Line 90.
Index_get_default_device ==
    /\ pc = "device"
    /\ \E run \in RouteRuns :
          LET r == GetDefaultDevice(run) IN
          /\ calls' = Append(calls, Call("ip route show default", <<>>, run))
          /\ IF r.kind = "raise"
             THEN /\ response' = Propagate(r)
                  /\ device' = device
                  /\ pc' = "done"
             ELSE /\ response' = response
                  /\ device' = r.val
                  /\ pc' = "ip"
    /\ UNCHANGED <<is_admin, context, ssid, password, wifi_active, ip, wifi_qr,
                   raveberry_url, raveberry_qr, qr_calls, unit>>

\* Variant that swallows a failed IP resolution like a failed Wi-Fi probe.
Index_ip_of_device_swallow ==
    /\ pc = "ip"
    /\ \E run \in AddrRuns(device.v) :
          LET r == IpOfDevice(device.v, run) IN
          /\ calls' = Append(calls, Call("ip -4 a show dev", device.v, run))
          /\ ip' = IF r.kind = "raise" THEN ip ELSE r.val
    /\ pc' = "password"
    /\ UNCHANGED <<is_admin, context, ssid, password, wifi_active, device,
                   wifi_qr, raveberry_url, raveberry_qr, response, qr_calls, unit>>

\* Line 91.
Index_ip_of_device ==
    /\ pc = "ip"
    /\ \E run \in AddrRuns(device.v) :
          LET r == IpOfDevice(device.v, run) IN
          /\ calls' = Append(calls, Call("ip -4 a show dev", device.v, run))
          /\ IF r.kind = "raise"
             THEN /\ response' = Propagate(r)
                  /\ ip' = ip
                  /\ pc' = "done"
             ELSE /\ response' = response
                  /\ ip' = r.val
                  /\ pc' = "password"
    /\ UNCHANGED <<is_admin, context, ssid, password, wifi_active, device,
                   wifi_qr, raveberry_url, raveberry_qr, qr_calls, unit>>

\* Variant that runs the helper a second time when it fails.
Index_password_for_ssid_retry ==
    /\ pc = "password"
    /\ IF wifi_active
       THEN \E run \in PasswordRuns, again \in PasswordRuns :
               LET r == CheckOutput(run)
                   r2 == CheckOutput(again)
               IN IF r.kind = "raise"
                  THEN /\ calls' = calls \o <<Call("password_for_ssid", ssid.v, run),
                                              Call("password_for_ssid", ssid.v, again)>>
                       /\ password' = IF r2.kind = "raise" THEN password ELSE Str(r2.val)
                  ELSE /\ calls' = Append(calls, Call("password_for_ssid", ssid.v, run))
                       /\ password' = Str(r.val)
       ELSE UNCHANGED <<calls, password>>
    /\ pc' = "qr"
    /\ UNCHANGED <<is_admin, context, ssid, wifi_active, device, ip, wifi_qr,
                   raveberry_url, raveberry_qr, response, qr_calls, unit>>

\* Lines 93-100: the password helper, its failure swallowed.
Index_password_for_ssid ==
    /\ pc = "password"
    /\ IF wifi_active
       THEN \E run \in PasswordRuns :
               LET r == CheckOutput(run) IN
               /\ calls' = Append(calls, Call("password_for_ssid", ssid.v, run))
               /\ password' = IF r.kind = "raise" THEN password ELSE Str(r.val)
       ELSE UNCHANGED <<calls, password>>
    /\ pc' = "qr"
    /\ UNCHANGED <<is_admin, context, ssid, wifi_active, device, ip, wifi_qr,
                   raveberry_url, raveberry_qr, response, qr_calls, unit>>

\* f"WIFI:S:{ssid};T:WPA;P:{password};;"
WifiPayload(s, p) == WIFI_S \o Format(s) \o T_WPA_P \o Format(p) \o SEMI2

\* f"http://{ip}/"
UrlOf(addr) == HTTP \o Format(addr) \o SLASH

\* Lines 102-104: both QR codes.
Index_qr_path ==
    /\ pc = "qr"
    /\ LET payload == WifiPayload(ssid, password)
           url == UrlOf(ip)
       IN /\ wifi_qr' = QrPath(payload)
          /\ raveberry_url' = Str(url)
          /\ raveberry_qr' = QrPath(url)
          /\ qr_calls' = qr_calls \o <<payload, url>>
    /\ pc' = "render"
    /\ UNCHANGED <<is_admin, context, ssid, password, wifi_active, device, ip,
                   response, calls, unit>>

\* Variant that sets the Wi-Fi keys whether Wi-Fi is active or not.
PageContext_unconditional(ctx) ==
    [k \in CtxKeys |->
        CASE k = "ssid" -> ssid
          [] k = "password" -> password
          [] k = "wifi_qr" -> wifi_qr
          [] k = "raveberry_url" -> raveberry_url
          [] k = "raveberry_qr" -> raveberry_qr
          [] k = "ip" -> ip
          [] OTHER -> ctx[k]]

\* Lines 106-116: the six keys of the page.
PageContext(ctx) ==
    [k \in CtxKeys |->
        CASE k = "ssid" -> IF wifi_active THEN ssid ELSE None
          [] k = "password" -> IF wifi_active THEN password ELSE None
          [] k = "wifi_qr" -> IF wifi_active THEN wifi_qr ELSE None
          [] k = "raveberry_url" -> raveberry_url
          [] k = "raveberry_qr" -> raveberry_qr
          [] k = "ip" -> ip
          [] OTHER -> ctx[k]]

\* Lines 106-117.
Index_render ==
    /\ pc = "render"
    /\ context' = PageContext(context)
    /\ response' = Render("network_info.html", context')
    /\ pc' = "done"
    /\ UNCHANGED <<is_admin, ssid, password, wifi_active, device, ip, wifi_qr,
                   raveberry_url, raveberry_qr, calls, qr_calls, unit>>

\* The response is out and the request's values are discarded: nothing is
\* kept from one request to the next.
Index_return ==
    /\ pc = "done"
    /\ pc' = "idle"
    /\ is_admin' = FALSE
    /\ context' = BaseContext
    /\ ssid' = None
    /\ password' = None
    /\ wifi_active' = FALSE
    /\ device' = None
    /\ ip' = None
    /\ wifi_qr' = None
    /\ raveberry_url' = None
    /\ raveberry_qr' = None
    /\ response' = NoResponse
    /\ calls' = <<>>
    /\ qr_calls' = <<>>
    /\ UNCHANGED unit

Next ==
    \/ Index_is_admin
    \/ Index_iwgetid
    \/ Index_get_default_device
    \/ Index_ip_of_device
    \/ Index_password_for_ssid
    \/ Index_qr_path
    \/ Index_render
    \/ Index_return

Spec == Init /\ [][Next]_vars

-----------------------------------------------------------------------------
(* The two parsing routines on their own, over generated command outputs. *)

RouteVocab == {W_dev, W_eth0, W_wlan0, W_default}

AddrVocab == {W_inet, W_inet6, W_lo, <<"1", "0", ".", "1", "/", "2", "4">>,
              <<"/", "8">>}

\* Outputs of `ip route show default`: up to MaxWords words, separated by
\* blanks or by blank and newline, and a failed command.
RouteInputs ==
    {Run(1, <<>>)} \cup
    {Run(0, Join(ws, sep) \o NL) :
        ws \in SeqsUpTo(RouteVocab, MaxWords), sep \in {SP, <<" ", "\n">>}}

\* Lines of an address output: up to MaxFields fields, indented or not.
AddrLines ==
    {indent \o Join(fs, SP) :
        fs \in SeqsUpTo(AddrVocab, MaxFields), indent \in {<<>>, <<" ", " ">>}}

\* Outputs of `ip -4 a show dev <dev>`: up to MaxLines lines, and a failed
\* command.
AddrInputs ==
    {Run(1, <<>>)} \cup
    {Run(0, Join(ls, NL)) : ls \in SeqsUpTo(AddrLines, MaxLines)}

InitDevice ==
    /\ RequestInit
    /\ unit \in {[fn |-> "_get_default_device", dev |-> <<>>, run |-> r,
                  ret |-> Pending] : r \in RouteInputs}

Call_get_default_device ==
    /\ unit.fn = "_get_default_device"
    /\ unit.ret = Pending
    /\ unit' = [unit EXCEPT !.ret = GetDefaultDevice(unit.run)]
    /\ UNCHANGED request_vars

NextDevice == Call_get_default_device

SpecDevice == InitDevice /\ [][NextDevice]_vars

InitIp ==
    /\ RequestInit
    /\ unit \in {[fn |-> "_ip_of_device", dev |-> d, run |-> r,
                  ret |-> Pending] : d \in {W_eth0, W_wlan0}, r \in AddrInputs}

Call_ip_of_device ==
    /\ unit.fn = "_ip_of_device"
    /\ unit.ret = Pending
    /\ unit' = [unit EXCEPT !.ret = IpOfDevice(unit.dev, unit.run)]
    /\ UNCHANGED request_vars

NextIp == Call_ip_of_device

SpecIp == InitIp /\ [][NextIp]_vars

-----------------------------------------------------------------------------
(* Properties of index(). *)

CmdIwgetid == "iwgetid"

CmdRoute == "ip route show default"

CmdAddr == "ip -4 a show dev"

CmdPassword == "password_for_ssid"

\* The positions of the request's invocations of a command.
CallsOf(cmd) == {i \in DOMAIN calls : calls[i].cmd = cmd}

\* The place of a command in the order index() runs them.
Rank(cmd) ==
    CASE cmd = CmdIwgetid -> 1
      [] cmd = CmdRoute -> 2
      [] cmd = CmdAddr -> 3
      [] OTHER -> 4

Chars(s) == {s[i] : i \in DOMAIN s}

\* C1: a request of a user who is not an admin ends at once in the redirect
\* to login: no external command is invoked, no QR code is built and no page
\* is rendered.
C1_UnauthorizedOnlyRedirects ==
    (pc # "idle" /\ ~is_admin) =>
        /\ pc = "done"
        /\ response.kind = "redirect"
        /\ response.target = "login"
        /\ calls = <<>>
        /\ qr_calls = <<>>
        /\ \A k \in CtxKeys : context[k] = Unset /\ response.context[k] = Unset

C1_Witness ==
    pc = "done" /\ ~is_admin /\ response.kind = "redirect"

\* C2 as claimed: no Wi-Fi command (iwgetid, password_for_ssid) is invoked
\* before the default-device resolution and the IP resolution have both
\* completed successfully.
C2_WifiCommandsAfterNetworkProbe ==
    \A i \in DOMAIN calls :
        calls[i].cmd \in {CmdIwgetid, CmdPassword} =>
            /\ \E j \in CallsOf(CmdRoute) : j < i
            /\ \E k \in CallsOf(CmdAddr) : k < i
            /\ device # None
            /\ ip # None

\* C2 as amended: the stages run in the order AuthCheck, iwgetid,
\* default-device resolution, IP resolution, password helper (only when Wi-Fi
\* is active), BuildQRCodes, Render. iwgetid is the first command of every
\* authorized request, and the password helper is never invoked before both
\* resolutions have completed successfully.
C2_StageOrder ==
    /\ \A i, j \in DOMAIN calls : i < j => Rank(calls[i].cmd) < Rank(calls[j].cmd)
    /\ calls # <<>> => is_admin /\ calls[1].cmd = CmdIwgetid
    /\ CallsOf(CmdAddr) # {} => CallsOf(CmdRoute) # {} /\ device # None
    /\ CallsOf(CmdPassword) # {} =>
          /\ CallsOf(CmdRoute) # {} /\ CallsOf(CmdAddr) # {}
          /\ device # None /\ ip # None
    /\ qr_calls # <<>> =>
          /\ ip # None
          /\ wifi_active => CallsOf(CmdPassword) # {}
          /\ pc \in {"render", "done"}
    /\ response.kind = "render" => Len(qr_calls) = 2 /\ pc = "done"

C2_Witness ==
    /\ response.kind = "render"
    /\ Len(calls) = 4
    /\ calls[1].cmd = CmdIwgetid
    /\ calls[4].cmd = CmdPassword

\* C3: when iwgetid exits non-zero, wifi_active is false, ssid and password
\* are None in the rendered context, the password helper is never invoked
\* and the QR encoder is called for the URL payload only.
C3_NoWifiQrWhenInactive ==
    (\E i \in CallsOf(CmdIwgetid) : calls[i].run.rc # 0) =>
        /\ ~wifi_active
        /\ ssid = None
        /\ password = None
        /\ CallsOf(CmdPassword) = {}
        /\ response.kind = "render" =>
              /\ response.context["ssid"] = None
              /\ response.context["password"] = None
        /\ \A k \in DOMAIN qr_calls : qr_calls[k] = HTTP \o ip.v \o SLASH

\* The exception of the request's last resolution, computed again from the
\* process it ran.
LastResolution ==
    LET last == calls[Len(calls)] IN
    IF last.cmd = CmdRoute
    THEN GetDefaultDevice(last.run)
    ELSE IpOfDevice(last.arg, last.run)

\* C4: when the default-device resolution or the IP resolution fails, the
\* request fails with that error: nothing is rendered, no context key is
\* set, no QR code is built, whether Wi-Fi is active or not.
C4_NetworkFailureIsHard ==
    (\/ CallsOf(CmdRoute) # {} /\ device = None
     \/ CallsOf(CmdAddr) # {} /\ ip = None) =>
        /\ pc = "done"
        /\ calls[Len(calls)].cmd \in {CmdRoute, CmdAddr}
        /\ LastResolution.kind = "raise"
        /\ response.kind = "raise"
        /\ response.target = LastResolution.exc
        /\ (calls[Len(calls)].run.rc # 0) = (response.target = "CalledProcessError")
        /\ qr_calls = <<>>
        /\ \A k \in CtxKeys : context[k] = Unset /\ response.context[k] = Unset

C4_Witness ==
    /\ wifi_active
    /\ CallsOf(CmdAddr) # {}
    /\ response.kind = "raise"
    /\ response.target = "ValueError"

\* ";T:WPA;P:None;;" as it is written out.
T_WPA_P_None ==
    <<";", "T", ":", "W", "P", "A", ";", "P", ":", "N", "o", "n", "e", ";", ";">>

\* C7: when iwgetid succeeds with SSID s and the password helper exits
\* non-zero, the failure is swallowed: the page is rendered with ssid = s and
\* password None, and the Wi-Fi QR payload is WIFI:S:<s>;T:WPA;P:None;;
C7_HelperFailureSwallowed ==
    \A i \in CallsOf(CmdIwgetid), j \in CallsOf(CmdPassword) :
        (calls[i].run.rc = 0 /\ calls[j].run.rc # 0) =>
            \E s \in {DropLast(calls[i].run.out)} :
                /\ calls[i].run.out = s \o NL
                /\ ssid = Str(s)
                /\ password = None
                /\ pc \in {"qr", "render", "done"}
                /\ pc \in {"render", "done"} =>
                      /\ qr_calls[1] = WIFI_S \o s \o T_WPA_P_None
                      /\ wifi_qr = QrPath(qr_calls[1])
                /\ pc = "done" =>
                      /\ response.kind = "render"
                      /\ response.context["ssid"] = Str(s)
                      /\ response.context["password"] = None
                      /\ response.context["wifi_qr"] = wifi_qr

C7_Witness ==
    /\ pc = "done"
    /\ response.kind = "render"
    /\ \E j \in CallsOf(CmdPassword) : calls[j].run.rc # 0
    /\ response.context["ssid"] = Str(<<"M", "y", "N", "e", "t">>)

\* C8: a rendered context always holds ip, raveberry_url and raveberry_qr:
\* ip is the address resolved from the address command run for exactly the
\* device the default-device resolution returned, raveberry_url is
\* http://<ip>/ and raveberry_qr the QR code of that URL; ssid, password and
\* wifi_qr are None when Wi-Fi is inactive.
C8_RenderedContext ==
    response.kind = "render" =>
        LET ctx == response.context IN
        /\ \A k \in CtxKeys : ctx[k] # Unset
        /\ \E i \in CallsOf(CmdRoute), j \in CallsOf(CmdAddr) :
              /\ GetDefaultDevice(calls[i].run) = Return(Str(calls[j].arg))
              /\ IpOfDevice(calls[j].arg, calls[j].run) = Return(ctx["ip"])
        /\ ctx["ip"].t = "str"
        /\ ctx["raveberry_url"] = Str(HTTP \o ctx["ip"].v \o SLASH)
        /\ ctx["raveberry_qr"] = QrPath(HTTP \o ctx["ip"].v \o SLASH)
        /\ (\E i \in CallsOf(CmdIwgetid) : calls[i].run.rc # 0) =>
              /\ ctx["ssid"] = None
              /\ ctx["password"] = None
              /\ ctx["wifi_qr"] = None

C8_Witness ==
    /\ response.kind = "render"
    /\ ~wifi_active
    /\ device = Str(W_wlan0)
    /\ response.context["ip"] = Str(<<"1", "0", ".", "2">>)

\* C9: within one request every external command is invoked at most once,
\* whatever the commands answer, and the password helper is invoked only
\* after iwgetid succeeded in that request, with the SSID it returned.
C9_EachCommandOnce ==
    /\ \A i, j \in DOMAIN calls : calls[i].cmd = calls[j].cmd => i = j
    /\ \A j \in CallsOf(CmdPassword) :
          \E i \in CallsOf(CmdIwgetid) :
              /\ i < j
              /\ calls[i].run.rc = 0
              /\ calls[i].run.out = calls[j].arg \o NL

C9_Witness ==
    /\ pc = "done"
    /\ Len(calls) = 4
    /\ calls[4].cmd = CmdPassword
    /\ calls[4].run.rc # 0
    /\ calls[4].arg = <<"P", "i">>

-----------------------------------------------------------------------------
(* Properties of the parsing routines. *)

Max(S) == CHOOSE x \in S : \A y \in S : y <= x

Min(S) == CHOOSE x \in S : \A y \in S : x <= y

NotFoundDevice == Raise("ValueError", Msg("No default device found", <<>>))

NotFoundIp(dev) == Raise("ValueError", Msg("ip not found for ", dev))

\* C5 as claimed: the result is the token after the last occurrence of the
\* token dev, not-found when there is no dev token, and a failed command is
\* another error than not-found.
C5_AfterLastDev ==
    (unit.fn = "_get_default_device" /\ unit.ret # Pending) =>
        IF unit.run.rc # 0
        THEN unit.ret.kind = "raise" /\ unit.ret.exc # NotFoundDevice.exc
        ELSE LET words == Split(unit.run.out)
                 devs == {i \in DOMAIN words : words[i] = W_dev}
             IN IF devs = {}
                THEN unit.ret = NotFoundDevice
                ELSE /\ Max(devs) < Len(words)
                     /\ unit.ret = Return(Str(words[Max(devs) + 1]))

\* C5 as amended: the result is the token after the last dev that has a
\* token after it (a dev that ends the output is no match), not-found when
\* no dev token is followed by a token, and a failed command is another
\* error than not-found.
C5_AfterLastDevPair ==
    (unit.fn = "_get_default_device" /\ unit.ret # Pending) =>
        IF unit.run.rc # 0
        THEN unit.ret.kind = "raise" /\ unit.ret.exc # NotFoundDevice.exc
        ELSE LET words == Split(unit.run.out)
                 devs == {i \in DOMAIN words : words[i] = W_dev /\ i < Len(words)}
             IN IF devs = {}
                THEN unit.ret = NotFoundDevice
                ELSE unit.ret = Return(Str(words[Max(devs) + 1]))

C5_Witness ==
    /\ unit.fn = "_get_default_device"
    /\ Split(unit.run.out) = <<W_dev, W_eth0, W_dev, W_wlan0>>
    /\ unit.ret = Return(Str(W_wlan0))

\* The field without its /<prefix-length> suffix.
BeforeSlash(f) ==
    IF "/" \in Chars(f)
    THEN SubSeq(f, 1, Min({i \in DOMAIN f : f[i] = "/"}) - 1)
    ELSE f

\* The lines of an output that, trimmed, start with inet.
InetLines(out) ==
    LET lines == SplitOn(out, "\n") IN
    {i \in DOMAIN lines : StartsWith(Strip(lines[i]), W_inet)}

\* C6: the result is the second whitespace-delimited field of the first
\* line that, trimmed, starts with inet, its /<prefix-length> suffix
\* removed; not-found when no line starts with inet.
C6_FirstInetLine ==
    (unit.fn = "_ip_of_device" /\ unit.ret # Pending /\ unit.run.rc = 0) =>
        LET lines == SplitOn(unit.run.out, "\n") IN
        IF InetLines(unit.run.out) = {}
        THEN unit.ret = NotFoundIp(unit.dev)
        ELSE LET fields == Split(lines[Min(InetLines(unit.run.out))]) IN
             /\ Len(fields) >= 2
             /\ unit.ret = Return(Str(BeforeSlash(fields[2])))

\* C10: for every address output the call either returns a non-empty
\* address without a slash or fails with the not-found error for the device.
C10_AddressOrNotFound ==
    (unit.fn = "_ip_of_device" /\ unit.ret # Pending /\ unit.run.rc = 0) =>
        \/ /\ unit.ret.kind = "return"
           /\ unit.ret.val.t = "str"
           /\ unit.ret.val.v # <<>>
           /\ "/" \notin Chars(unit.ret.val.v)
        \/ unit.ret = NotFoundIp(unit.dev)

====
